---- MODULE Spec2Model ----
(***************************************************************************)
(* Benchmark dashboard: the metric value normalizers and the comparison    *)
(* schema builder of frontend/src/FileUpload.jsx, the FileUpload           *)
(* component's upload cycle, the report store behind /api/reports and the  *)
(* dataset upload ingress behind /api/dataset/upload.                      *)
(***************************************************************************)
EXTENDS Integers, Sequences, FiniteSets, TLC

VARIABLES
    nValue,      \* normalizer input: the value / the numerator a
    nDenom,      \* normalizer input: the denominator b
    nDecimals,   \* normalizer input: decimals
    nOut,        \* last normalizer application: [fn, res]
    file,        \* FileUpload state: selected file
    response,    \* FileUpload state: response
    loading,     \* FileUpload state: loading
    pc,          \* position of handleUpload: "idle" or "awaiting"
    alerts,      \* last alert() shown by handleUpload ("" when none)
    succeeded,   \* history: some upload-and-process request has succeeded
    reports,     \* the reports collection: _id -> document
    nextId,      \* the next _id the collection assigns
    clock,       \* logical time of the timestamps; one tick per write
    lastRes,     \* the last /reports exchange: request and answer
    createdWith, \* history: _id -> the body its POST carried
    modified,    \* history: the _ids a PUT or DELETE has changed
    deleted,     \* history: the _ids a DELETE has answered 200 for
    uploads,     \* the files under ./uploads/
    upReq,       \* the POST /dataset/upload request being received
    upRes,       \* the last answer of POST /dataset/upload, with its request
    uuids,       \* how many identifiers uuidv4() has handed out
    requests     \* how many upload requests have arrived

vars == <<nValue, nDenom, nDecimals, nOut, file, response, loading, pc, alerts, succeeded,
          reports, nextId, clock, lastRes, createdWith, modified, deleted,
          uploads, upReq, upRes, uuids, requests>>

normVars == <<nValue, nDenom, nDecimals, nOut>>
uiVars == <<file, response, loading, pc, alerts, succeeded>>
storeVars == <<reports, nextId, clock, lastRes, createdWith, modified, deleted>>
ingressVars == <<uploads, upReq, upRes, uuids, requests>>

(***************************************************************************)
(* Bounds                                                                  *)
(***************************************************************************)
MaxNum == 3
MaxDecimals == 2
MaxWrites == 2
MaxUploads == 3

(***************************************************************************)
(* JavaScript values.  Every value is a record [t, c, n, d, s]:            *)
(*   t = "undefined" | "null" | "boolean" | "number" | "string" | "object" *)
(*   number : c = "fin" (the rational n/d, d > 0, in lowest terms),        *)
(*            "nan", "inf" or "ninf"                                       *)
(*   boolean: n = 1 (true) or 0 (false)                                    *)
(*   string : c = "lit"   the literal text s                               *)
(*            c = "fixed" fixed notation: sign s ("" or "-"), then the     *)
(*                        digits of n with the last d of them behind the   *)
(*                        decimal point                                    *)
(* Finite numbers are dyadic (d a power of two), so every quotient and     *)
(* every rounding below is exact in IEEE doubles as well.                  *)
(***************************************************************************)
JS(t, c, n, d, s) == [t |-> t, c |-> c, n |-> n, d |-> d, s |-> s]

Undefined == JS("undefined", "", 0, 1, "")
Null == JS("null", "", 0, 1, "")
True == JS("boolean", "", 1, 1, "")
False == JS("boolean", "", 0, 1, "")
NaN == JS("number", "nan", 0, 1, "")
Infinity == JS("number", "inf", 0, 1, "")
NegInfinity == JS("number", "ninf", 0, 1, "")
EmptyObject == JS("object", "", 0, 1, "")
Str(s) == JS("string", "lit", 0, 1, s)

Abs(x) == IF x < 0 THEN -x ELSE x

RECURSIVE Gcd(_, _)
Gcd(a, b) == IF b = 0 THEN a ELSE Gcd(b, a % b)

RECURSIVE Pow10(_)
Pow10(k) == IF k = 0 THEN 1 ELSE 10 * Pow10(k - 1)

\* The finite number n/d in lowest terms with a positive denominator.
Num(n, d) ==
    LET g == Gcd(Abs(n), Abs(d))
        sgn == IF d < 0 THEN -1 ELSE 1
    IN JS("number", "fin", (sgn * n) \div g, Abs(d) \div g, "")

Zero == Num(0, 1)

IsFiniteNum(v) == v.t = "number" /\ v.c = "fin"
IsNaNNum(v) == v.t = "number" /\ v.c = "nan"

\* StringToNumber on the string literals the model uses.
StringToNumber(s) ==
    CASE s = "" -> Zero
      [] s = "12" -> Num(12, 1)
      [] s = "1.5" -> Num(3, 2)
      [] s = "Infinity" -> Infinity
      [] s = "-Infinity" -> NegInfinity
      [] OTHER -> NaN

\* ToNumber, the coercion behind isNaN(), Number() and the / operator.
ToNumber(v) ==
    CASE v.t = "undefined" -> NaN
      [] v.t = "null" -> Zero
      [] v.t = "boolean" -> Num(v.n, 1)
      [] v.t = "number" -> v
      [] v.t = "string" ->
            IF v.c = "fixed"
            THEN Num((IF v.s = "-" THEN -1 ELSE 1) * v.n, Pow10(v.d))
            ELSE StringToNumber(v.s)
      [] OTHER -> NaN

\* The global isNaN(value).
isNaN(v) == IsNaNNum(ToNumber(v))

\* The global isFinite(value).
isFinite(v) == IsFiniteNum(ToNumber(v))

\* ToBoolean, the test in `b && ...`.
Truthy(v) ==
    CASE v.t = "undefined" -> FALSE
      [] v.t = "null" -> FALSE
      [] v.t = "boolean" -> v.n = 1
      [] v.t = "number" -> ~(v.c = "nan" \/ (v.c = "fin" /\ v.n = 0))
      [] v.t = "string" -> ~(v.c = "lit" /\ v.s = "")
      [] OTHER -> TRUE

SignOf(x) == IF x.c = "ninf" \/ (x.c = "fin" /\ x.n < 0) THEN -1 ELSE 1

SignedInfinity(sg) == IF sg < 0 THEN NegInfinity ELSE Infinity

\* x / y on numbers (IEEE 754 division; the sign of zero is not kept).
NumDiv(x, y) ==
    CASE x.c = "nan" \/ y.c = "nan" -> NaN
      [] x.c \in {"inf", "ninf"} /\ y.c \in {"inf", "ninf"} -> NaN
      [] x.c \in {"inf", "ninf"} -> SignedInfinity(SignOf(x) * SignOf(y))
      [] y.c \in {"inf", "ninf"} -> Zero
      [] y.n = 0 -> IF x.n = 0 THEN NaN ELSE SignedInfinity(SignOf(x))
      [] OTHER -> Num(x.n * y.d, x.d * y.n)

\* The expression a / b.
Divide(a, b) == NumDiv(ToNumber(a), ToNumber(b))

\* Number.prototype.toFixed(decimals).
toFixed(x, decimals) ==
    CASE x.c = "nan" -> Str("NaN")
      [] x.c = "inf" -> Str("Infinity")
      [] x.c = "ninf" -> Str("-Infinity")
      [] OTHER ->
            LET mag == Abs(x.n) * Pow10(decimals)
                q == mag \div x.d
                r == mag % x.d
            IN JS("string", "fixed", IF 2 * r >= x.d THEN q + 1 ELSE q, decimals,
                  IF x.n < 0 THEN "-" ELSE "")

(***************************************************************************)
(* Metric value normalizers                                                *)
(***************************************************************************)
safeNumber(value, decimals) ==
    IF value # Undefined /\ value # Null /\ ~isNaN(value)
    THEN toFixed(ToNumber(value), decimals)
    ELSE Str("N/A")

safeDivide(a, b) ==
    IF Truthy(b) /\ ~IsNaNNum(Divide(a, b)) /\ b # Zero
    THEN Divide(a, b)
    ELSE Zero

chartValue(value) ==
    IF value # Undefined /\ value # Null /\ ~isNaN(value)
    THEN ToNumber(value)
    ELSE Null

\* The inputs the normalizers are applied to.
FiniteNumbers == {Num(n, d) : n \in -MaxNum..MaxNum, d \in {1, 8}}

NormValues ==
    FiniteNumbers \cup
    {Undefined, Null, NaN, Infinity, NegInfinity, True, False, EmptyObject,
     Str(""), Str("12"), Str("1.5"), Str("abc")}

NoOut == [fn |-> "none", res |-> Undefined]

InitNorm ==
    /\ nValue \in NormValues
    /\ nDenom \in NormValues
    /\ nDecimals \in 0..MaxDecimals
    /\ nOut = NoOut

ApplySafeNumber ==
    /\ nOut' = [fn |-> "safeNumber", res |-> safeNumber(nValue, nDecimals)]
    /\ UNCHANGED <<nValue, nDenom, nDecimals>>

ApplySafeDivide ==
    /\ nOut' = [fn |-> "safeDivide", res |-> safeDivide(nValue, nDenom)]
    /\ UNCHANGED <<nValue, nDenom, nDecimals>>

ApplyChartValue ==
    /\ nOut' = [fn |-> "chartValue", res |-> chartValue(nValue)]
    /\ UNCHANGED <<nValue, nDenom, nDecimals>>

(***************************************************************************)
(* Comparison results.  An engine entry of the response is absent          *)
(* (kind "undefined"), null, or an object whose props map the field names  *)
(* it carries to their values.  The response itself is null or an object   *)
(* with the two engine entries.                                            *)
(***************************************************************************)
NoProps == [f \in {} |-> Undefined]

AbsentEngine == [kind |-> "undefined", props |-> NoProps]
NullEngine == [kind |-> "null", props |-> NoProps]
EngineObject(props) == [kind |-> "object", props |-> props]

NullResponse == [kind |-> "null", scidb |-> AbsentEngine, mapreduce |-> AbsentEngine]
ResponseObject(s, m) == [kind |-> "object", scidb |-> s, mapreduce |-> m]

\* The test `data ? ... : ...` and `response && ...`.
Present(data) == data.kind = "object"

\* The expression engine?.field.
Get(engine, field) ==
    IF engine.kind \in {"undefined", "null"} THEN Undefined
    ELSE IF field \in DOMAIN engine.props THEN engine.props[field]
    ELSE Undefined

Row(name, s, m) == [name |-> name, scidb |-> s, mapreduce |-> m]

BuildPerformanceRows(data) ==
    << Row("Execution Time (s)",
           chartValue(Get(data.scidb, "execution_time_seconds")),
           chartValue(Get(data.mapreduce, "execution_time_seconds"))),
       Row("Memory (MB)",
           chartValue(safeDivide(Get(data.scidb, "memory_usage_snapshot_mb"), Num(1, 1))),
           chartValue(safeDivide(Get(data.mapreduce, "memory_usage_avg_mb"), Num(1, 1)))),
       Row("CPU (%)",
           chartValue(Get(data.scidb, "cpu_percent_snapshot")),
           chartValue(Get(data.mapreduce, "cpu_percent_avg"))),
       Row("Throughput (rows/s)",
           chartValue(Get(data.scidb, "throughput_rows_per_sec")),
           chartValue(Get(data.mapreduce, "throughput_rows_per_sec"))) >>

\* renderChart's filter: the rows with a value for at least one engine.
FilterRows(rows) == SelectSeq(rows, LAMBDA item : item.scidb # Null \/ item.mapreduce # Null)

performanceMetricsFiltered(data) ==
    IF Present(data) THEN FilterRows(BuildPerformanceRows(data)) ELSE << >>

performanceMetrics(data) ==
    IF Present(data) THEN BuildPerformanceRows(data) ELSE << >>

dataMetrics(data) ==
    IF Present(data)
    THEN << Row("Rows Processed",
                chartValue(Get(data.scidb, "row_count")),
                chartValue(Get(data.mapreduce, "row_count"))),
            Row("Columns",
                chartValue(Get(data.scidb, "column_count")),
                chartValue(Get(data.mapreduce, "column_count"))),
            Row("File Size (KB)",
                chartValue(safeDivide(Get(data.scidb, "file_size_bytes"), Num(1024, 1))),
                chartValue(safeDivide(Get(data.mapreduce, "file_size_bytes"), Num(1024, 1)))),
            Row("Avg Row Size (bytes)",
                chartValue(Get(data.scidb, "avg_row_size_bytes")),
                chartValue(Get(data.mapreduce, "avg_row_size_bytes"))) >>
    ELSE << >>

systemMetrics(data) ==
    IF Present(data)
    THEN << Row("Memory Usage (%)",
                chartValue(Get(data.scidb, "memory_percent_snapshot")),
                chartValue(Get(data.mapreduce, "memory_percent_avg"))) >>
    ELSE << >>

\* All rows the builder emits for one comparison result, in order.
SchemaRows(data) == performanceMetrics(data) \o dataMetrics(data) \o systemMetrics(data)

(***************************************************************************)
(* The FileUpload component                                                *)
(***************************************************************************)
ScidbFields ==
    {"execution_time_seconds", "memory_usage_snapshot_mb", "cpu_percent_snapshot",
     "throughput_rows_per_sec", "row_count", "column_count", "file_size_bytes",
     "avg_row_size_bytes", "memory_percent_snapshot"}

MapreduceFields ==
    {"execution_time_seconds", "memory_usage_avg_mb", "cpu_percent_avg",
     "throughput_rows_per_sec", "row_count", "column_count", "file_size_bytes",
     "avg_row_size_bytes", "memory_percent_avg"}

\* Values an engine reports for a metric, and what a malformed field holds.
ReportedValues == {Zero, Num(2048, 1)}
MalformedValues == {Null, Str("abc")}

\* Engine entries: absent, null, an empty object, a complete object, and a
\* complete object with one field dropped or malformed.
Engines(fields) ==
    {AbsentEngine, NullEngine, EngineObject(NoProps)} \cup
    {EngineObject([f \in fields |-> v]) : v \in ReportedValues} \cup
    {EngineObject([f \in fields \ {g} |-> v]) : v \in ReportedValues, g \in fields} \cup
    {EngineObject([f \in fields |-> IF f = g THEN b ELSE v]) :
        v \in ReportedValues, g \in fields, b \in MalformedValues}

\* The other engine's entry while one engine's entry varies.
Counterparts(fields) == {AbsentEngine, EngineObject([f \in fields |-> Num(2048, 1)])}

\* Bodies of a 2xx answer of POST /upload-and-process.
Responses ==
    {NullResponse} \cup
    {ResponseObject(s, m) : s \in Engines(ScidbFields), m \in Counterparts(MapreduceFields)} \cup
    {ResponseObject(s, m) : s \in Counterparts(ScidbFields), m \in Engines(MapreduceFields)}

\* What the component's return statement renders.  The summary block reads
\* response.scidb with a plain property access, which faults on null.
renderChart(data) == FilterRows(data)

MetricCards(resp) ==
    << Row("Execution Time",
           safeNumber(Get(resp.scidb, "execution_time_seconds"), 3),
           safeNumber(Get(resp.mapreduce, "execution_time_seconds"), 3)),
       Row("Throughput",
           safeNumber(Get(resp.scidb, "throughput_rows_per_sec"), 0),
           safeNumber(Get(resp.mapreduce, "throughput_rows_per_sec"), 0)),
       Row("Memory Usage",
           safeNumber(Get(resp.scidb, "memory_usage_snapshot_mb"), 1),
           safeNumber(Get(resp.mapreduce, "memory_usage_avg_mb"), 1)),
       Row("CPU Usage",
           safeNumber(Get(resp.scidb, "cpu_percent_snapshot"), 1),
           safeNumber(Get(resp.mapreduce, "cpu_percent_avg"), 1)) >>

RenderView(resp, busy, shown) ==
    [ form |-> TRUE,
      button |-> IF busy THEN "Processing..." ELSE "Upload & Process",
      disabled |-> busy,
      summary |-> shown,
      cards |-> IF shown THEN MetricCards(resp) ELSE << >>,
      charts |-> IF shown
                 THEN << renderChart(performanceMetrics(resp)),
                         renderChart(dataMetrics(resp)),
                         renderChart(systemMetrics(resp)) >>
                 ELSE << >>,
      fault |-> shown /\ ~Present(resp) ]

RenderUnguarded(resp, busy) == RenderView(resp, busy, TRUE)

Render(resp, busy) == RenderView(resp, busy, Present(resp))

Files == {"null", "undefined", "data.csv"}

InitUI ==
    /\ file = "null"
    /\ response = NullResponse
    /\ loading = FALSE
    /\ pc = "idle"
    /\ alerts = ""
    /\ succeeded = FALSE

\* onChange of the file input: setFile(e.target.files[0]).
SelectFile ==
    /\ \E f \in Files \ {"null"} : file' = f
    /\ UNCHANGED <<response, loading, pc, alerts, succeeded>>

\* handleUpload with no file selected.  The button is disabled while loading.
HandleUploadNoFile ==
    /\ pc = "idle" /\ ~loading
    /\ file \in {"null", "undefined"}
    /\ alerts' = "Please select a file first."
    /\ UNCHANGED <<file, response, loading, pc, succeeded>>

\* handleUpload up to the await of axios.post.
HandleUploadStart ==
    /\ pc = "idle" /\ ~loading
    /\ file \notin {"null", "undefined"}
    /\ loading' = TRUE
    /\ pc' = "awaiting"
    /\ UNCHANGED <<file, response, alerts, succeeded>>

\* The request resolves: setResponse(res.data), then the finally block.
UploadSucceeds ==
    /\ pc = "awaiting"
    /\ \E data \in Responses : response' = data
    /\ loading' = FALSE
    /\ pc' = "idle"
    /\ succeeded' = TRUE
    /\ UNCHANGED <<file, alerts>>

\* The request rejects: the catch block, then the finally block.
UploadFails ==
    /\ pc = "awaiting"
    /\ alerts' = "Upload failed! Please check backend."
    /\ loading' = FALSE
    /\ pc' = "idle"
    /\ UNCHANGED <<file, response, succeeded>>

(***************************************************************************)
(* The report store: model/report.js behind the routes of routes/report.js *)
(***************************************************************************)
SchemaPathsWithoutDiskWrite ==
    [ faster_system |-> "String",
      execution_time_diff |-> "Number",
      cpu_diff |-> "Number",
      memory_diff |-> "Number",
      disk_read_diff |-> "Number" ]

\* reportSchema: every path is required.
SchemaPaths ==
    [ faster_system |-> "String",
      execution_time_diff |-> "Number",
      cpu_diff |-> "Number",
      memory_diff |-> "Number",
      disk_read_diff |-> "Number",
      disk_write_diff |-> "Number" ]

Cast(ok, val) == [ok |-> ok, val |-> val]

\* A path of type String: strings are kept, integers become their text.
CastString(v) ==
    CASE v.t \in {"undefined", "null"} -> Cast(TRUE, Null)
      [] v.t = "string" -> Cast(TRUE, v)
      [] v.t = "number" /\ v.c = "fin" /\ v.d = 1 -> Cast(TRUE, toFixed(v, 0))
      [] OTHER -> Cast(FALSE, Null)

\* A path of type Number: numbers and numeric strings are kept as numbers.
CastNumber(v) ==
    CASE v.t \in {"undefined", "null"} -> Cast(TRUE, Null)
      [] v.t = "string" /\ v.c = "lit" /\ v.s = "" -> Cast(TRUE, Null)
      [] v.t \in {"number", "string", "boolean"} ->
            IF isNaN(v) THEN Cast(FALSE, Null) ELSE Cast(TRUE, ToNumber(v))
      [] OTHER -> Cast(FALSE, Null)

CastPath(type, v) == IF type = "String" THEN CastString(v) ELSE CastNumber(v)

\* required: true.  A required String must also be non-empty.
Required(type, val) == val # Null /\ (type = "String" => val # Str(""))

BodyGet(body, f) == IF f \in DOMAIN body THEN body[f] ELSE Undefined

\* new Report(body): the schema's paths cast from the body; other keys dropped.
NewReport(body) == [f \in DOMAIN SchemaPaths |-> CastPath(SchemaPaths[f], BodyGet(body, f))]

\* Document validation on save.
Validates(body) ==
    \A f \in DOMAIN SchemaPaths :
        NewReport(body)[f].ok /\ Required(SchemaPaths[f], NewReport(body)[f].val)

DocFields(body) == [f \in DOMAIN SchemaPaths |-> NewReport(body)[f].val]

Doc(id, fields, createdAt, updatedAt) ==
    [id |-> id, fields |-> fields, createdAt |-> createdAt, updatedAt |-> updatedAt]

NoDoc == Doc(0, NoProps, 0, 0)
NoBody == NoProps

\* A request (method, params.id, body) and an exchange: it and its answer.
Request(method, id, body) == [method |-> method, id |-> id, body |-> body]

Exchange(req, status, body) == [req |-> req, status |-> status, body |-> body]

\* createReport: store the validated document with a fresh _id and timestamps.
createReport(req) ==
    /\ clock < MaxWrites
    /\ IF Validates(req.body)
       THEN LET doc == Doc(nextId, DocFields(req.body), clock + 1, clock + 1)
            IN /\ reports' = [i \in DOMAIN reports \cup {nextId} |->
                                 IF i = nextId THEN doc ELSE reports[i]]
               /\ nextId' = nextId + 1
               /\ clock' = clock + 1
               /\ lastRes' = Exchange(req, 201, doc)
       ELSE /\ lastRes' = Exchange(req, 400, NoDoc)
            /\ UNCHANGED <<reports, nextId, clock>>

\* getReportById
getReportById(req) ==
    /\ lastRes' = IF req.id \in DOMAIN reports
                  THEN Exchange(req, 200, reports[req.id])
                  ELSE Exchange(req, 404, NoDoc)
    /\ UNCHANGED <<reports, nextId, clock>>

\* updateReport: the patch's paths are cast and set; validators do not run.
updateReport(req) ==
    /\ clock < MaxWrites
    /\ LET cast == [f \in DOMAIN req.body \cap DOMAIN SchemaPaths |->
                       CastPath(SchemaPaths[f], req.body[f])]
       IN IF \E f \in DOMAIN cast : ~cast[f].ok
          THEN /\ lastRes' = Exchange(req, 400, NoDoc)
               /\ UNCHANGED <<reports, clock>>
          ELSE IF req.id \notin DOMAIN reports
          THEN /\ lastRes' = Exchange(req, 404, NoDoc)
               /\ UNCHANGED <<reports, clock>>
          ELSE LET old == reports[req.id]
                   doc == Doc(req.id,
                              [f \in DOMAIN old.fields |->
                                  IF f \in DOMAIN cast THEN cast[f].val ELSE old.fields[f]],
                              old.createdAt, clock + 1)
               IN /\ reports' = [reports EXCEPT ![req.id] = doc]
                  /\ clock' = clock + 1
                  /\ lastRes' = Exchange(req, 200, doc)
    /\ UNCHANGED nextId

\* deleteReport
deleteReport(req) ==
    /\ IF req.id \in DOMAIN reports
       THEN /\ reports' = [i \in DOMAIN reports \ {req.id} |-> reports[i]]
            /\ lastRes' = Exchange(req, 200, NoDoc)
       ELSE /\ lastRes' = Exchange(req, 404, NoDoc)
            /\ UNCHANGED reports
    /\ UNCHANGED <<nextId, clock>>

ReportRouteDeleteAsGet(method) ==
    CASE method = "POST" -> "createReport"
      [] method = "GET" -> "getReportById"
      [] method = "PUT" -> "updateReport"
      [] OTHER -> "getReportById"

\* The handler routes/report.js mounts for each method.
ReportRoute(method) ==
    CASE method = "POST" -> "createReport"
      [] method = "GET" -> "getReportById"
      [] method = "PUT" -> "updateReport"
      [] OTHER -> "deleteReport"

\* One request to /reports: the routed handler runs, and the histories note
\* what the client was answered.
Handle(req) ==
    /\ \/ ReportRoute(req.method) = "createReport" /\ createReport(req)
       \/ ReportRoute(req.method) = "getReportById" /\ getReportById(req)
       \/ ReportRoute(req.method) = "updateReport" /\ updateReport(req)
       \/ ReportRoute(req.method) = "deleteReport" /\ deleteReport(req)
    /\ createdWith' =
          IF req.method = "POST" /\ lastRes'.status = 201
          THEN [i \in DOMAIN createdWith \cup {lastRes'.body.id} |->
                   IF i = lastRes'.body.id THEN req.body ELSE createdWith[i]]
          ELSE createdWith
    /\ modified' =
          IF req.method \in {"PUT", "DELETE"} /\ lastRes'.status = 200
          THEN modified \cup {req.id}
          ELSE modified
    /\ deleted' =
          IF req.method = "DELETE" /\ lastRes'.status = 200
          THEN deleted \cup {req.id}
          ELSE deleted

\* Request bodies.  Two complete reports, and the first one with one field
\* dropped or replaced.
ReportA ==
    [ faster_system |-> Str("scidb"),
      execution_time_diff |-> Num(3, 2),
      cpu_diff |-> Num(13, 4),
      memory_diff |-> Num(-10, 1),
      disk_read_diff |-> Zero,
      disk_write_diff |-> Num(1, 2) ]

ReportB ==
    [ faster_system |-> Str("mapreduce"),
      execution_time_diff |-> Num(-3, 2),
      cpu_diff |-> Zero,
      memory_diff |-> Num(5, 1),
      disk_read_diff |-> Num(1, 4),
      disk_write_diff |-> Num(2, 1) ]

BadValues(f) ==
    IF f = "faster_system"
    THEN {Str(""), Str("postgres")}
    ELSE {Str("abc"), Str("12")}

ReportBodies ==
    {ReportA, ReportB} \cup
    {[f \in DOMAIN ReportA \ {g} |-> ReportA[f]] : g \in DOMAIN ReportA} \cup
    UNION {{[ReportA EXCEPT ![g] = b] : b \in BadValues(g)} : g \in DOMAIN ReportA}

Patches ==
    { [cpu_diff |-> Num(7, 1)],
      [faster_system |-> Str("mapreduce")],
      [memory_diff |-> Str("abc")] }

ReportIds == 1..MaxWrites

InitStore ==
    /\ reports = [i \in {} |-> NoDoc]
    /\ nextId = 1
    /\ clock = 0
    /\ lastRes = Exchange(Request("", 0, NoBody), 0, NoDoc)
    /\ createdWith = [i \in {} |-> NoBody]
    /\ modified = {}
    /\ deleted = {}

PostReport == \E body \in ReportBodies : Handle(Request("POST", 0, body))

GetReport == \E id \in ReportIds : Handle(Request("GET", id, NoBody))

PutReport == \E id \in ReportIds, patch \in Patches : Handle(Request("PUT", id, patch))

DeleteReport == \E id \in ReportIds : Handle(Request("DELETE", id, NoBody))

(***************************************************************************)
(* The upload ingress: routes/datasets.js.  Sizes are in KiB.  A request   *)
(* is received in chunks through upload.single('dataset'); the route       *)
(* handler runs once the middleware has stored the file or found none.  A  *)
(* middleware error skips the handler and is answered 500 by the default   *)
(* error handler.                                                          *)
(***************************************************************************)
\* limits.fileSize: 5 * 1024 * 1024 * 1024 bytes.
FileSizeLimit == 5 * 1024 * 1024

\* What one read of the request stream delivers.
ChunkSize == 2 * 1024 * 1024

\* The field single() accepts.
DatasetField == "dataset"

UploadSizes == {1024 * 1024, FileSizeLimit, FileSizeLimit + 1, 6 * 1024 * 1024}
UploadExts == {".csv", ""}

Min(a, b) == IF a < b THEN a ELSE b

NoRequest == [no |-> 0, field |-> "none", ext |-> "", size |-> 0, written |-> 0,
              uuid |-> 0, phase |-> "none"]

Answer(req, status, uploadId, filename, size) ==
    [req |-> req, status |-> status, uploadId |-> uploadId, filename |-> filename,
     size |-> size]

\* A stored file: named uuid + ext, holding bytes, written for request no.
StoredFile(uuid, ext, bytes, no) == [uuid |-> uuid, ext |-> ext, bytes |-> bytes, no |-> no]

InitIngress ==
    /\ uploads = {}
    /\ upReq = NoRequest
    /\ upRes = Answer(NoRequest, 0, 0, 0, 0)
    /\ uuids = 0
    /\ requests = 0

\* A request without any file part: req.file stays undefined, the handler
\* answers 400.
PostWithoutFile ==
    /\ upReq = NoRequest
    /\ requests < MaxUploads
    /\ requests' = requests + 1
    /\ upRes' = Answer([NoRequest EXCEPT !.no = requests + 1], 400, 0, 0, 0)
    /\ UNCHANGED <<uploads, upReq, uuids>>

\* A request whose file part is not in the field single() accepts: the
\* middleware fails with an unexpected-field error before storing anything.
PostUnexpectedField ==
    /\ upReq = NoRequest
    /\ requests < MaxUploads
    /\ \E ext \in UploadExts, size \in UploadSizes :
          upRes' = Answer([NoRequest EXCEPT !.no = requests + 1, !.field = "file",
                                            !.ext = ext, !.size = size], 500, 0, 0, 0)
    /\ requests' = requests + 1
    /\ UNCHANGED <<uploads, upReq, uuids>>

\* A file part in field dataset arrives: diskStorage names the file
\* uuidv4() + extname(originalname) and opens it under ./uploads/.
PostDatasetBegin ==
    /\ upReq = NoRequest
    /\ requests < MaxUploads
    /\ \E ext \in UploadExts, size \in UploadSizes :
          /\ upReq' = [no |-> requests + 1, field |-> DatasetField, ext |-> ext,
                       size |-> size, written |-> 0, uuid |-> uuids + 1,
                       phase |-> "writing"]
          /\ uploads' = uploads \cup {StoredFile(uuids + 1, ext, 0, requests + 1)}
    /\ uuids' = uuids + 1
    /\ requests' = requests + 1
    /\ UNCHANGED upRes

\* The bytes on disk after the next chunk: the stream is cut at limit.
BytesAfterChunk(written, size, limit) == Min(Min(written + ChunkSize, size), limit)

\* The stream reports the limit once more than limit bytes have been read.
LimitHit(written, size, limit) == Min(written + ChunkSize, size) > limit

\* The next chunk of the file part is written to the stored file.
WriteChunk ==
    /\ upReq.phase = "writing"
    /\ upReq.written < upReq.size
    /\ LET bytes == BytesAfterChunk(upReq.written, upReq.size, FileSizeLimit)
           hit == LimitHit(upReq.written, upReq.size, FileSizeLimit)
       IN /\ upReq' = [upReq EXCEPT !.written = bytes,
                                    !.phase = IF hit THEN "limit" ELSE "writing"]
          /\ uploads' = (uploads \ {StoredFile(upReq.uuid, upReq.ext, upReq.written, upReq.no)})
                           \cup {StoredFile(upReq.uuid, upReq.ext, bytes, upReq.no)}
    /\ UNCHANGED <<upRes, uuids, requests>>

\* The files the middleware removes when it aborts a request.
RemovedOnAbort(req) == {f \in uploads : f.uuid = req.uuid}

\* The file exceeded limits.fileSize: the middleware removes what it stored
\* and passes the error on; the handler does not run.
RejectOversized ==
    /\ upReq.phase = "limit"
    /\ uploads' = uploads \ RemovedOnAbort(upReq)
    /\ upRes' = Answer(upReq, 500, 0, 0, 0)
    /\ upReq' = NoRequest
    /\ UNCHANGED <<uuids, requests>>

\* The file is stored whole: the handler draws uploadId and answers 201.
HandleUploaded ==
    /\ upReq.phase = "writing"
    /\ upReq.written = upReq.size
    /\ upRes' = Answer(upReq, 201, uuids + 1, upReq.uuid, upReq.written)
    /\ uuids' = uuids + 1
    /\ upReq' = NoRequest
    /\ UNCHANGED <<uploads, requests>>

(***************************************************************************)
(* Specifications                                                          *)
(***************************************************************************)
NextNorm ==
    \/ ApplySafeNumber /\ UNCHANGED <<uiVars, storeVars, ingressVars>>
    \/ ApplySafeDivide /\ UNCHANGED <<uiVars, storeVars, ingressVars>>
    \/ ApplyChartValue /\ UNCHANGED <<uiVars, storeVars, ingressVars>>

IdleNorm ==
    /\ nValue = Undefined
    /\ nDenom = Undefined
    /\ nDecimals = 0
    /\ nOut = NoOut

InitNormSpec == InitNorm /\ InitUI /\ InitStore /\ InitIngress

SpecNorm == InitNormSpec /\ [][NextNorm]_vars

NextUI ==
    \/ SelectFile /\ UNCHANGED <<normVars, storeVars, ingressVars>>
    \/ HandleUploadNoFile /\ UNCHANGED <<normVars, storeVars, ingressVars>>
    \/ HandleUploadStart /\ UNCHANGED <<normVars, storeVars, ingressVars>>
    \/ UploadSucceeds /\ UNCHANGED <<normVars, storeVars, ingressVars>>
    \/ UploadFails /\ UNCHANGED <<normVars, storeVars, ingressVars>>

InitUISpec == IdleNorm /\ InitUI /\ InitStore /\ InitIngress

SpecUI == InitUISpec /\ [][NextUI]_vars

NextStore ==
    \/ PostReport /\ UNCHANGED <<normVars, uiVars, ingressVars>>
    \/ GetReport /\ UNCHANGED <<normVars, uiVars, ingressVars>>
    \/ PutReport /\ UNCHANGED <<normVars, uiVars, ingressVars>>
    \/ DeleteReport /\ UNCHANGED <<normVars, uiVars, ingressVars>>

InitStoreSpec == IdleNorm /\ InitUI /\ InitStore /\ InitIngress

SpecStore == InitStoreSpec /\ [][NextStore]_vars

NextIngress ==
    \/ PostWithoutFile /\ UNCHANGED <<normVars, uiVars, storeVars>>
    \/ PostUnexpectedField /\ UNCHANGED <<normVars, uiVars, storeVars>>
    \/ PostDatasetBegin /\ UNCHANGED <<normVars, uiVars, storeVars>>
    \/ WriteChunk /\ UNCHANGED <<normVars, uiVars, storeVars>>
    \/ RejectOversized /\ UNCHANGED <<normVars, uiVars, storeVars>>
    \/ HandleUploaded /\ UNCHANGED <<normVars, uiVars, storeVars>>

InitIngressSpec == IdleNorm /\ InitUI /\ InitStore /\ InitIngress

SpecIngress == InitIngressSpec /\ [][NextIngress]_vars

(***************************************************************************)
(* Properties of the normalizers (SpecNorm)                                *)
(***************************************************************************)
\* value is null, undefined or not finite.
AbsentOrNotFinite(v) == v = Undefined \/ v = Null \/ ~isFinite(v)

\* res is the fixed-notation text of a number nearest to x with dec decimals.
DenotesRounded(res, x, dec) ==
    /\ res.t = "string" /\ res.c = "fixed" /\ res.d = dec
    /\ 2 * Abs(res.n * x.d - Abs(x.n) * Pow10(dec)) <= x.d
    /\ (res.s = "-") = (x.n < 0)

\* C1: toDisplayNumber (safeNumber) returns the Unavailable sentinel "N/A" for
\* every value that is null, undefined or not finite, and for every finite
\* number the value rounded to the requested decimals.
C1_DisplayNumberContract ==
    nOut.fn = "safeNumber" =>
        /\ AbsentOrNotFinite(nValue) => nOut.res = Str("N/A")
        /\ IsFiniteNum(nValue) => DenotesRounded(nOut.res, nValue, nDecimals)

\* C2: toChartValue (chartValue) returns null exactly when the input is null,
\* undefined or not finite, and the numeric value unchanged otherwise.
C2_ChartValueContract ==
    nOut.fn = "chartValue" =>
        /\ (nOut.res = Null) <=> AbsentOrNotFinite(nValue)
        /\ ~AbsentOrNotFinite(nValue) => nOut.res = ToNumber(nValue)

\* C3: safeRatio (safeDivide) returns 0 when the denominator is zero, null or
\* undefined or the quotient is not finite, the quotient otherwise, and
\* always a finite number.
C3_SafeRatioContract ==
    nOut.fn = "safeDivide" =>
        LET q == Divide(nValue, nDenom)
            fallback == nDenom \in {Zero, Null, Undefined} \/ ~IsFiniteNum(q)
        IN /\ fallback => nOut.res = Zero
           /\ ~fallback => nOut.res = q
           /\ IsFiniteNum(nOut.res)

(***************************************************************************)
(* Properties of the schema builder and the component (SpecUI)             *)
(***************************************************************************)
Names(rows) == [i \in 1..Len(rows) |-> rows[i].name]

\* C4: for every comparison result the builder emits the same fixed rows in
\* the same order, whichever engine entries or fields are missing or malformed.
C4_FixedRowSet ==
    Present(response) =>
        /\ Names(performanceMetrics(response)) =
              <<"Execution Time (s)", "Memory (MB)", "CPU (%)", "Throughput (rows/s)">>
        /\ Names(dataMetrics(response)) =
              <<"Rows Processed", "Columns", "File Size (KB)", "Avg Row Size (bytes)">>
        /\ Names(systemMetrics(response)) = <<"Memory Usage (%)">>

\* C4 witness: a result with one engine entry absent and a field missing from
\* the other, whose rows would all be dropped by a presence filter.
C4_Witness ==
    /\ Present(response)
    /\ response.scidb = AbsentEngine
    /\ response.mapreduce.kind = "object"
    /\ "execution_time_seconds" \notin DOMAIN response.mapreduce.props
    /\ "row_count" \in DOMAIN response.mapreduce.props

\* The view with only the upload form.
FormOnly(view) ==
    /\ view.form
    /\ ~view.summary
    /\ view.cards = << >>
    /\ view.charts = << >>

\* C9: with response null the component renders the upload form only and does
\* not fault; response is null until an upload succeeds; and no attempt that
\* has ended leaves loading set.
C9_NullResponseRendersFormOnly ==
    /\ response = NullResponse =>
          FormOnly(Render(response, loading)) /\ ~Render(response, loading).fault
    /\ ~succeeded => response = NullResponse
    /\ pc = "idle" => ~loading

\* C9 witness: a failed attempt has ended and nothing has succeeded yet.
C9_Witness ==
    /\ ~succeeded
    /\ pc = "idle"
    /\ alerts = "Upload failed! Please check backend."
    /\ response = NullResponse

\* The metric field behind each row, per engine.
SourceField(name) ==
    CASE name = "Execution Time (s)" ->
            [scidb |-> "execution_time_seconds", mapreduce |-> "execution_time_seconds"]
      [] name = "Memory (MB)" ->
            [scidb |-> "memory_usage_snapshot_mb", mapreduce |-> "memory_usage_avg_mb"]
      [] name = "CPU (%)" ->
            [scidb |-> "cpu_percent_snapshot", mapreduce |-> "cpu_percent_avg"]
      [] name = "Throughput (rows/s)" ->
            [scidb |-> "throughput_rows_per_sec", mapreduce |-> "throughput_rows_per_sec"]
      [] name = "Rows Processed" -> [scidb |-> "row_count", mapreduce |-> "row_count"]
      [] name = "Columns" -> [scidb |-> "column_count", mapreduce |-> "column_count"]
      [] name = "File Size (KB)" ->
            [scidb |-> "file_size_bytes", mapreduce |-> "file_size_bytes"]
      [] name = "Avg Row Size (bytes)" ->
            [scidb |-> "avg_row_size_bytes", mapreduce |-> "avg_row_size_bytes"]
      [] OTHER ->
            [scidb |-> "memory_percent_snapshot", mapreduce |-> "memory_percent_avg"]

\* shown is a faithful plot of the reported field: nothing when the field is
\* missing, null or non-numeric, and zero only for a reported zero.
FaithfulPoint(reported, shown) ==
    /\ (reported \in {Undefined, Null} \/ isNaN(reported)) => shown = Null
    /\ shown = Zero => reported = Zero

\* C10: in every row an engine's value is null when its metric field is
\* missing, null or non-numeric, and 0 only when the engine reported 0.
C10_NoSilentZero ==
    Present(response) =>
        \A i \in 1..Len(SchemaRows(response)) :
            LET row == SchemaRows(response)[i]
                src == SourceField(row.name)
            IN /\ FaithfulPoint(Get(response.scidb, src.scidb), row.scidb)
               /\ FaithfulPoint(Get(response.mapreduce, src.mapreduce), row.mapreduce)

(***************************************************************************)
(* Properties of the report store (SpecStore)                              *)
(***************************************************************************)
ReportFieldNames ==
    {"faster_system", "execution_time_diff", "cpu_diff", "memory_diff",
     "disk_read_diff", "disk_write_diff"}

DiffFieldNames == ReportFieldNames \ {"faster_system"}

\* A valid report: every field present, a system name and five numbers.
WellTyped(body) ==
    /\ DOMAIN body = ReportFieldNames
    /\ body["faster_system"].t = "string" /\ body["faster_system"] # Str("")
    /\ \A f \in DiffFieldNames : IsFiniteNum(body[f])

IsNumeric(v) == v.t \in {"number", "string"} /\ v # Str("") /\ isFinite(v)

\* The report create() is specified to accept.
ValidReport(body) ==
    /\ DOMAIN body = ReportFieldNames
    /\ body["faster_system"] \in {Str("scidb"), Str("mapreduce")}
    /\ \A f \in DiffFieldNames : IsNumeric(body[f])

\* C7: create succeeds only for a report whose diff fields are all present and
\* numeric and whose faster_system is scidb or mapreduce; any other report is
\* answered 400 and the stored records stay as they were.
C7_CreateValidates ==
    [][ (lastRes' # lastRes /\ lastRes'.req.method = "POST")
        => /\ lastRes'.status = 201 => ValidReport(lastRes'.req.body)
           /\ ~ValidReport(lastRes'.req.body)
                 => (lastRes'.status = 400 /\ reports' = reports) ]_vars

(***************************************************************************)
(* Properties of the upload ingress (SpecIngress)                          *)
(***************************************************************************)
\* No file written for request no is left under ./uploads/.
NothingStoredFor(no) == ~\E f \in uploads : f.no = no

\* C8: an upload whose file exceeds the limit is never answered 201 and leaves
\* no file, whole or partial, behind once it is rejected; an upload with no
\* file in field dataset is answered 400 and stores nothing.
C8_UploadRejections ==
    upRes.status # 0 =>
        /\ (upRes.req.field = DatasetField /\ upRes.req.size > FileSizeLimit)
              => (upRes.status # 201 /\ NothingStoredFor(upRes.req.no))
        /\ upRes.req.field # DatasetField
              => (upRes.status = 400 /\ NothingStoredFor(upRes.req.no))

====
